---- MODULE Spec2Model ----
(***************************************************************************)
(* Wallet connection persistence and auto-reconnect of the wallet-ops      *)
(* tutorial (01-wallet-ops/src/main.ts).                                   *)
(*                                                                         *)
(* The page is single threaded.  Every action below is one run-to-         *)
(* completion piece of the program: a timer callback, a DOM event handler  *)
(* up to its first await, or the continuation of an await up to the end    *)
(* of the handler.  The wallets (their account lists, the settlement of    *)
(* their promises, their change events) and the user are the environment.  *)
(***************************************************************************)
EXTENDS Integers, Sequences, FiniteSets, TLC

\* ------------------------------------------------------------------ bounds
MaxIndex  == 2   \* largest accountIndex of a record found in the slot at page load
MaxCycles == 4   \* refresh cycles (displaySuiWallets runs) per page load
                 \* that the user and the wallets may cause
MaxTimers == 2   \* setTimeout(displaySuiWallets, 100) callbacks told apart

\* ------------------------------------------------------- JavaScript values
\* A JavaScript value of the three types the stored record can hold.
Undefined == [t |-> "undefined", s |-> "", n |-> 0]
JsStr(x)  == [t |-> "string", s |-> x, n |-> 0]
JsNum(k)  == [t |-> "number", s |-> "", n |-> k]

\* ToNumber on the values the abstract relational comparison of line 144
\* meets: a number is itself, the numeric strings "0" and "1" are their
\* value, undefined is NaN (no other string reaches the comparison).
IsNaN(v) == ~(v.t = "number" \/ (v.t = "string" /\ v.s \in {"0", "1"}))
ToNumber(v) ==
  IF v.t = "number" THEN v.n
  ELSE IF v.s = "1" THEN 1 ELSE 0

Max(S) == CHOOSE x \in S : \A y \in S : y <= x

\* ------------------------------------------------------------ environment
WalletNames == {"Sui Wallet", "Ethos Wallet"}
Addresses   == {"0xabc", "0xdef"}

\* The registries getWallets().get() can return: the wallet handles in
\* registration order, each with its name and whether it has the
\* standard:events feature.  Two handles may carry the same name.
Handle(nm, ev) == [name |-> nm, events |-> ev]
Registries ==
  { <<>>,
    <<Handle("Ethos Wallet", TRUE)>>,
    <<Handle("Sui Wallet", TRUE), Handle("Ethos Wallet", FALSE)>>,
    <<Handle("Sui Wallet", FALSE), Handle("Sui Wallet", FALSE)>> }

\* The account lists a wallet may expose (wallet.accounts, always an array
\* in the wallet standard): disconnected, one account, and a second
\* account put in front of it, which moves the first one from index 0 to
\* index 1.
AccountLists == { <<>>, <<"0xabc">>, <<"0xdef", "0xabc">> }
MaxAccounts == Max({ Len(l) : l \in AccountLists })

\* ------------------------------------------------ the persisted slot, JSON
\* The text under WALLET_CONNECTION_KEY.  kind "none": no item (getItem
\* gives null); "empty": the empty string; "garbage": text JSON.parse
\* rejects; "null": the text null; "object": a JSON object, its members in
\* written order.
Text(k, ms) == [kind |-> k, members |-> ms]
NoItem      == Text("none", <<>>)
Member(k, v) == [key |-> k, val |-> v]

\* interface StoredWalletConnection, as a JavaScript object: a property
\* that is not there reads as undefined.
StoredWalletConnection(nm, ad, ix) ==
  [present |-> TRUE, walletName |-> nm, accountAddress |-> ad, accountIndex |-> ix]
Null ==
  [present |-> FALSE, walletName |-> Undefined, accountAddress |-> Undefined,
   accountIndex |-> Undefined]

\* JSON.stringify with the index written as a string.
JSONstringifyIndexAsString(obj) ==
  Text("object",
       << Member("walletName", obj.walletName),
          Member("accountAddress", obj.accountAddress),
          Member("accountIndex", JsStr("0")) >>)

\* JSON.stringify of an object of the three properties: a member per
\* property whose value is not undefined, in property order.
JSONstringify(obj) ==
  LET m(k, v) == IF v.t = "undefined" THEN <<>> ELSE <<Member(k, v)>>
  IN  Text("object",
           m("walletName", obj.walletName) \o
           m("accountAddress", obj.accountAddress) \o
           m("accountIndex", obj.accountIndex))

\* The value of property k of the object a member list denotes: the last
\* member of that key, undefined when there is none.
RECURSIVE GetMember(_, _)
GetMember(ms, k) ==
  IF ms = <<>> THEN Undefined
  ELSE IF ms[Len(ms)].key = k THEN ms[Len(ms)].val
       ELSE GetMember(SubSeq(ms, 1, Len(ms) - 1), k)

\* JSON.parse: throws on text that is no JSON, gives null for the text
\* null, and the object for an object text.
JSONparse(text) ==
  [throws |-> text.kind \notin {"null", "object"},
   value  |-> IF text.kind = "object"
              THEN StoredWalletConnection(GetMember(text.members, "walletName"),
                                          GetMember(text.members, "accountAddress"),
                                          GetMember(text.members, "accountIndex"))
              ELSE Null]

\* A throwing setItem that leaves the slot without an item.
setItemFailureDropsItem(s, text, writeOk) == IF writeOk THEN text ELSE NoItem

\* localStorage.setItem: the slot holds the text, unless the write throws
\* (quota, storage disabled), which leaves the slot as it was.
setItem(s, text, writeOk) == IF writeOk THEN text ELSE s

\* saveWalletConnection merging into the record already stored: a stored
\* wallet name survives the save.
saveWalletConnectionMerging(s, walletName, accountAddress, accountIndex, writeOk) ==
  LET old == JSONparse(s).value
  IN  setItem(s,
              JSONstringify(StoredWalletConnection(
                IF old.walletName.t = "string" THEN old.walletName ELSE JsStr(walletName),
                JsStr(accountAddress), JsNum(accountIndex))),
              writeOk)

saveWalletConnection(s, walletName, accountAddress, accountIndex, writeOk) ==
  setItem(s,
          JSONstringify(StoredWalletConnection(JsStr(walletName),
                                               JsStr(accountAddress),
                                               JsNum(accountIndex))),
          writeOk)

\* `if (stored)` is false for no item and for the empty string; reading
\* connectionData.walletName of null throws inside the try block.
loadWalletConnection(s) ==
  IF s.kind \in {"none", "empty"} THEN Null
  ELSE LET p == JSONparse(s)
       IN  IF p.throws THEN Null
           ELSE IF ~p.value.present THEN Null
           ELSE p.value

\* removeItem replaced by a reset of the slot to the empty object.
removeItemWritesEmptyObject(s) == Text("object", <<>>)

removeItem(s) == NoItem

clearWalletConnection(s) == removeItem(s)



\* ------------------------------------------------------------------- state
VARIABLES
  wallets,    \* getWallets().get(): the handles, fixed for the page load
  accounts,   \* accounts[w]: wallet w's live account list (wallet.accounts)
  slot,       \* localStorage[WALLET_CONNECTION_KEY]
  output,     \* what #output holds: "Loading wallets...", "NoWallets", "List"
  rendered,   \* rendered[w]: the row of wallet w in #output
  initTimer,  \* the setTimeout(..., 500) of line 443 is pending
  timers,     \* pending setTimeout(displaySuiWallets, 100) callbacks
  listeners,  \* listeners[w]: 'change' listeners registered on wallet w
  pending,    \* pending[w]: the user-initiated call on wallet w in flight
  cycles,     \* displaySuiWallets invocations so far
  resolver,   \* autoConnectWallet: suspended, or its outcome in the last step
  autoBy,     \* the trigger of every cycle that invoked autoConnectWallet
  last        \* the step taken last

vars == <<wallets, accounts, slot, output, rendered, initTimer, timers,
          listeners, pending, cycles, resolver, autoBy, last>>

W == DOMAIN wallets

\* Records that satisfy the interface: two strings and an index >= 0.
ValidRecords ==
  { StoredWalletConnection(JsStr(nm), JsStr(ad), JsNum(ix)) :
      nm \in WalletNames, ad \in Addresses, ix \in 0..MaxIndex }

\* Object texts that parse but do not satisfy the interface: a property
\* missing, or of the wrong type.
InvalidTexts ==
  LET nm == Member("walletName", JsStr("Sui Wallet"))
      ad == Member("accountAddress", JsStr("0xabc"))
      ix == Member("accountIndex", JsNum(0))
  IN  { Text("object", <<>>),
        Text("object", <<ad, ix>>),
        Text("object", <<nm, ix>>),
        Text("object", <<nm, ad>>),
        Text("object", <<Member("walletName", JsNum(0)), ad, ix>>),
        Text("object", <<nm, Member("accountAddress", JsNum(0)), ix>>),
        Text("object", <<nm, ad, Member("accountIndex", JsStr("0"))>>) }

\* What the slot can hold when the page loads.
InitialSlots ==
  {NoItem, Text("empty", <<>>), Text("garbage", <<>>), Text("null", <<>>)}
    \cup { JSONstringify(r) : r \in ValidRecords }
    \cup InvalidTexts

\* A row of #output: the wallet was found connected, the number of options
\* of its account selector, and the option the selector shows.
NoRow == [connected |-> FALSE, options |-> 0, selected |-> 0]

\* autoConnectWallet: idle, suspended on its silent connect ("awaiting"),
\* or returned in the step just taken ("done") with its result, the branch
\* it took, the record it loaded, the wallet it found, the slot it started
\* from, the connect calls it made, and what the read of
\* accounts[accountIndex] gave.
Resolver(state, result, path, stored, w, slot0, connects, read) ==
  [state |-> state, result |-> result, path |-> path, stored |-> stored,
   w |-> w, slot0 |-> slot0, connects |-> connects, read |-> read]
IdleResolver == Resolver("idle", FALSE, "none", Null, 0, NoItem, <<>>, "none")
Forget(r) == IF r.state = "awaiting" THEN r ELSE IdleResolver

\* The step taken last: its kind, the wallet it was about, whether the
\* wallet's promise resolved, the store call it made ("saved", "failed"
\* for a save whose write threw, "clear", "none") with the record handed
\* to saveWalletConnection, what the slot held before the step, how many
\* refresh cycles had been started before it, and how many setTimeout
\* calls of line 216 it made.
Step(op, w, ok, store, rec) ==
  [op |-> op, w |-> w, ok |-> ok, store |-> store, rec |-> rec, prev |-> slot,
   prevCycles |-> cycles, timersSet |-> 0]

\* The refresh cycles started so far together with those the pending
\* timers and the user calls in flight can still start.  The user and the
\* wallets start a new one only while Committed < MaxCycles, so that no
\* step of the program itself is ever held back by the bound.
Committed ==
  cycles + timers + Cardinality({ w \in W : pending[w] # "none" })
         + (IF initTimer THEN 1 ELSE 0)

\* The page after the module body has run (lines 430-445): #output holds
\* the loading text and the first displaySuiWallets is scheduled.
Init ==
  /\ wallets \in Registries
  /\ accounts \in [DOMAIN wallets -> AccountLists]
  /\ slot \in InitialSlots
  /\ output = "Loading wallets..."
  /\ rendered = [w \in DOMAIN wallets |-> NoRow]
  /\ initTimer = TRUE
  /\ timers = 0
  /\ listeners = [w \in DOMAIN wallets |-> 0]
  /\ pending = [w \in DOMAIN wallets |-> "none"]
  /\ cycles = 0
  /\ resolver = IdleResolver
  /\ autoBy = <<>>
  /\ last = [op |-> "init", w |-> 0, ok |-> TRUE, store |-> "none", rec |-> Null,
             prev |-> slot, prevCycles |-> 0, timersSet |-> 0]

\* ----------------------------------------------------------------- render
Min(S) == CHOOSE x \in S : \A y \in S : x <= y

\* Lines 401-403 without the comparison of the wallet name.
markedOptionsAnyWallet(w, s) ==
  LET storedConnection == loadWalletConnection(s)
  IN  { index \in 0..(Len(accounts[w]) - 1) :
          IF /\ storedConnection.present
             /\ JsNum(index) = storedConnection.accountIndex
          THEN TRUE
          ELSE index = 0 /\ ~storedConnection.present }

\* The option elements marked selected for wallet w while the slot holds s
\* (lines 399-408): the stored index of a record naming this wallet, else
\* index 0 when no record is stored.
markedOptions(w, s) ==
  LET storedConnection == loadWalletConnection(s)
  IN  { index \in 0..(Len(accounts[w]) - 1) :
          IF /\ storedConnection.present
             /\ JsStr(wallets[w].name) = storedConnection.walletName
             /\ JsNum(index) = storedConnection.accountIndex
          THEN TRUE
          ELSE index = 0 /\ ~storedConnection.present }

\* displayAccounts (lines 367-411): one option per live account; the
\* select element shows the last option that was marked, the first one
\* when none was.
displayAccounts(w, s) ==
  LET marked == markedOptions(w, s)
  IN  [connected |-> TRUE, options |-> Len(accounts[w]),
       selected |-> IF marked = {} THEN 0 ELSE Max(marked)]

\* The controls of a row (lines 259-267): the Disconnect button is in the
\* row of a wallet found connected, the Connect button in the row of one
\* found disconnected, and the accounts section with the selector is
\* displayed for a connected wallet.
connectBtn(row) == ~row.connected
disconnectBtn(row) == row.connected
accountsShown(row) == row.connected

\* isConnected of lines 242 and 284 testing that the account list exists
\* instead of that it is non-empty.
renderRowListExists(w, s) == displayAccounts(w, s)

\* One wallet's row (lines 236-298): connected means a non-empty account
\* list; accounts are displayed for a connected wallet only.
renderRow(w, s) ==
  IF Len(accounts[w]) > 0 THEN displayAccounts(w, s) ELSE NoRow

\* STEP 1.5 to STEP 12 of displaySuiWallets (lines 198-354) with the slot
\* holding s: a new 'change' listener on every wallet that has the events
\* feature, then the render of every row.
subscribeAndRender(s) ==
  /\ listeners' = [w \in W |-> IF wallets[w].events THEN listeners[w] + 1
                                ELSE listeners[w]]
  /\ output' = IF Len(wallets) = 0 THEN "NoWallets" ELSE "List"
  /\ rendered' = [w \in W |-> renderRow(w, s)]

\* ------------------------------------------------------ auto-reconnect
\* A call of the standard:connect feature of wallet w, with the input
\* {silent: true} (line 140) or without input (line 310).
connectCall(w, silent) == [w |-> w, silent |-> silent]

\* findLast in place of find: the last handle of the stored name.
findWalletLast(storedConnection) ==
  LET named == { w \in W : JsStr(wallets[w].name) = storedConnection.walletName }
  IN  IF named = {} THEN 0 ELSE Max(named)

\* find falling back to the first wallet when no name matches.
findWalletOrFirst(storedConnection) ==
  LET named == { w \in W : JsStr(wallets[w].name) = storedConnection.walletName }
  IN  IF named # {} THEN Min(named) ELSE IF W = {} THEN 0 ELSE 1

\* availableWallets.find(w => w.name === storedConnection.walletName)
findWallet(storedConnection) ==
  LET named == { w \in W : JsStr(wallets[w].name) = storedConnection.walletName }
  IN  IF named = {} THEN 0 ELSE Min(named)

\* autoConnectWallet called without the await of line 195: the cycle
\* subscribes and renders while the silent connect is still in flight.
autoConnectWalletNotAwaited(s) ==
  LET storedConnection == loadWalletConnection(s)
      wallet == findWallet(storedConnection)
  IN  IF ~storedConnection.present
      THEN /\ resolver' = Resolver("done", FALSE, "absent", storedConnection, 0, s,
                                   <<>>, "none")
           /\ slot' = s
           /\ subscribeAndRender(s)
      ELSE IF wallet = 0
      THEN /\ resolver' = Resolver("done", FALSE, "notfound", storedConnection, 0, s,
                                   <<>>, "none")
           /\ slot' = clearWalletConnection(s)
           /\ subscribeAndRender(clearWalletConnection(s))
      ELSE /\ resolver' = Resolver("awaiting", FALSE, "none", storedConnection,
                                   wallet, s, <<connectCall(wallet, TRUE)>>, "none")
           /\ slot' = s
           /\ subscribeAndRender(s)

\* The subscription loop of lines 204-227 moved ahead of the await of
\* line 195: the listeners are registered before the silent connect is
\* called, the render still follows it.
autoConnectWalletSubscribesFirst(s) ==
  LET storedConnection == loadWalletConnection(s)
      wallet == findWallet(storedConnection)
  IN  IF ~storedConnection.present
      THEN /\ resolver' = Resolver("done", FALSE, "absent", storedConnection, 0, s,
                                   <<>>, "none")
           /\ slot' = s
           /\ subscribeAndRender(s)
      ELSE IF wallet = 0
      THEN /\ resolver' = Resolver("done", FALSE, "notfound", storedConnection, 0, s,
                                   <<>>, "none")
           /\ slot' = clearWalletConnection(s)
           /\ subscribeAndRender(clearWalletConnection(s))
      ELSE /\ resolver' = Resolver("awaiting", FALSE, "none", storedConnection,
                                   wallet, s, <<connectCall(wallet, TRUE)>>, "none")
           /\ slot' = s
           /\ listeners' = [w \in W |-> IF wallets[w].events THEN listeners[w] + 1
                                         ELSE listeners[w]]
           /\ UNCHANGED <<output, rendered>>

\* autoConnectWallet up to its await (lines 126-140), with the slot holding
\* s.  Without a stored record, or without a wallet of the stored name, it
\* returns false and the cycle goes on to subscribe and render; else it
\* calls connect({silent: true}) and the cycle is suspended.
autoConnectWallet(s) ==
  LET storedConnection == loadWalletConnection(s)
      wallet == findWallet(storedConnection)
  IN  IF ~storedConnection.present
      THEN /\ resolver' = Resolver("done", FALSE, "absent", storedConnection, 0, s,
                                   <<>>, "none")
           /\ slot' = s
           /\ subscribeAndRender(s)
      ELSE IF wallet = 0
      THEN /\ resolver' = Resolver("done", FALSE, "notfound", storedConnection, 0, s,
                                   <<>>, "none")
           /\ slot' = clearWalletConnection(s)
           /\ subscribeAndRender(clearWalletConnection(s))
      ELSE /\ resolver' = Resolver("awaiting", FALSE, "none", storedConnection,
                                   wallet, s, <<connectCall(wallet, TRUE)>>, "none")
           /\ slot' = s
           /\ UNCHANGED <<listeners, output, rendered>>

\* The guard of line 194 left out: the auto-connect runs in every cycle.
isInitialRenderAlways == TRUE

\* The guard of line 194: the auto-connect runs while #output is empty or
\* still holds the loading text.
isInitialRender == output \in {"", "Loading wallets..."}

\* displaySuiWallets (lines 175-355), called by `trigger` with the slot
\* holding s.
displaySuiWallets(trigger, s) ==
  /\ cycles' = cycles + 1
  /\ IF isInitialRender
     THEN /\ autoBy' = Append(autoBy, trigger)
          /\ autoConnectWallet(s)
     ELSE /\ slot' = s
          /\ subscribeAndRender(s)
          /\ resolver' = Forget(resolver)
          /\ UNCHANGED autoBy

\* wallet.accounts[storedConnection.accountIndex] (line 145): the element
\* the index names, undefined when it names none.
accountAt(accs, index) ==
  IF ~IsNaN(index) /\ ToNumber(index) >= 0 /\ ToNumber(index) < Len(accs)
  THEN JsStr(accs[ToNumber(index) + 1])
  ELSE Undefined

\* The condition of lines 143-145 with >= for > in the length comparison.
accountCheckOffByOne(accs, storedConnection) ==
  LET lengthOk == /\ ~IsNaN(storedConnection.accountIndex)
                  /\ Len(accs) >= ToNumber(storedConnection.accountIndex)
      account  == accountAt(accs, storedConnection.accountIndex)
  IN  [read   |-> lengthOk,
       throws |-> lengthOk /\ account.t = "undefined",
       match  |-> lengthOk /\ account.t # "undefined"
                           /\ account = storedConnection.accountAddress]

\* The condition of lines 143-145.  lengthOk is the comparison
\* accounts.length > accountIndex (false against NaN); the element is read
\* only when it holds, and reading .address of undefined throws.
accountCheck(accs, storedConnection) ==
  LET lengthOk == /\ ~IsNaN(storedConnection.accountIndex)
                  /\ Len(accs) > ToNumber(storedConnection.accountIndex)
      account  == accountAt(accs, storedConnection.accountIndex)
  IN  [read   |-> lengthOk,
       throws |-> lengthOk /\ account.t = "undefined",
       match  |-> lengthOk /\ account.t # "undefined"
                           /\ account = storedConnection.accountAddress]

\* autoConnectWallet after its await, the catch block of lines 154-158
\* not clearing the store.
autoConnectResumeKeepsOnReject(ok, accs, storedConnection) ==
  LET check == accountCheck(accs, storedConnection)
  IN  IF ~ok \/ check.throws
      THEN [result |-> FALSE, path |-> "rejected",
            read |-> IF ok THEN "undefined" ELSE "none", clears |-> FALSE]
      ELSE IF check.match
      THEN [result |-> TRUE, path |-> "match", read |-> "account", clears |-> FALSE]
      ELSE [result |-> FALSE, path |-> "mismatch",
            read |-> IF check.read THEN "account" ELSE "none", clears |-> TRUE]

\* autoConnectWallet after its await, clearing the store on every branch
\* (the clear moved to a finally block).
autoConnectResumeClearsAlways(ok, accs, storedConnection) ==
  LET check == accountCheck(accs, storedConnection)
  IN  IF ~ok \/ check.throws
      THEN [result |-> FALSE, path |-> "rejected",
            read |-> IF ok THEN "undefined" ELSE "none", clears |-> TRUE]
      ELSE IF check.match
      THEN [result |-> TRUE, path |-> "match", read |-> "account", clears |-> TRUE]
      ELSE [result |-> FALSE, path |-> "mismatch",
            read |-> IF check.read THEN "account" ELSE "none", clears |-> TRUE]

\* autoConnectWallet after its await, the else branch of lines 149-153
\* returning false without clearing the store.
autoConnectResumeKeepsOnMismatch(ok, accs, storedConnection) ==
  LET check == accountCheck(accs, storedConnection)
  IN  IF ~ok
      THEN [result |-> FALSE, path |-> "rejected", read |-> "none", clears |-> TRUE]
      ELSE IF check.throws
      THEN [result |-> FALSE, path |-> "rejected", read |-> "undefined", clears |-> TRUE]
      ELSE IF check.match
      THEN [result |-> TRUE, path |-> "match", read |-> "account", clears |-> FALSE]
      ELSE [result |-> FALSE, path |-> "mismatch",
            read |-> IF check.read THEN "account" ELSE "none", clears |-> FALSE]

\* autoConnectWallet after its await (lines 140-158): the silent connect
\* resolved (ok) or rejected, the wallet exposes accs.  Gives the result,
\* the branch taken, what the read of accounts[accountIndex] gave, and
\* whether clearWalletConnection was called.
autoConnectResume(ok, accs, storedConnection) ==
  LET check == accountCheck(accs, storedConnection)
  IN  IF ~ok
      THEN [result |-> FALSE, path |-> "rejected", read |-> "none", clears |-> TRUE]
      ELSE IF check.throws
      THEN [result |-> FALSE, path |-> "rejected", read |-> "undefined", clears |-> TRUE]
      ELSE IF check.match
      THEN [result |-> TRUE, path |-> "match", read |-> "account", clears |-> FALSE]
      ELSE [result |-> FALSE, path |-> "mismatch",
            read |-> IF check.read THEN "account" ELSE "none", clears |-> TRUE]

\* The store call of the auto-connect that returned in this step.
resolverStore(r) ==
  IF r.state = "done" /\ r.path = "notfound" THEN "clear" ELSE "none"

\* page load: the timer of line 443 fires
LoadTimerFires ==
  /\ initTimer
  /\ initTimer' = FALSE
  /\ displaySuiWallets("load", slot)
  /\ last' = Step("cycle:load", 0, TRUE, resolverStore(resolver'), Null)
  /\ UNCHANGED <<wallets, accounts, timers, pending>>

\* a timer set by a 'change' listener fires (line 216)
ChangeTimerFires ==
  /\ timers > 0
  /\ timers' = timers - 1
  /\ displaySuiWallets("event", slot)
  /\ last' = Step("cycle:event", 0, TRUE, resolverStore(resolver'), Null)
  /\ UNCHANGED <<wallets, accounts, initTimer, pending>>

\* The silent connect settles: autoConnectWallet resumes (lines 140-158),
\* returns, and the suspended cycle subscribes and renders.
SilentConnectSettles(ok) ==
  /\ resolver.state = "awaiting"
  /\ LET r == autoConnectResume(ok, accounts[resolver.w], resolver.stored)
         s == IF r.clears THEN clearWalletConnection(slot) ELSE slot
     IN  /\ resolver' = Resolver("done", r.result, r.path, resolver.stored, resolver.w,
                                 resolver.slot0, resolver.connects, r.read)
         /\ slot' = s
         /\ subscribeAndRender(s)
         /\ last' = Step("silentSettled", resolver.w, ok,
                         IF r.clears THEN "clear" ELSE "none", Null)
  /\ UNCHANGED <<wallets, accounts, initTimer, timers, pending, cycles, autoBy>>

\* ------------------------------------------------------------ user actions
\* The user clicks the Connect button of wallet w (line 301): the handler
\* calls connect() and is suspended (line 310).  The button is there when
\* the last render found the wallet disconnected.
ClickConnect(w) ==
  /\ output = "List"
  /\ connectBtn(rendered[w])
  /\ pending[w] = "none"
  /\ Committed < MaxCycles
  /\ pending' = [pending EXCEPT ![w] = "connect"]
  /\ resolver' = Forget(resolver)
  /\ last' = Step("click", w, TRUE, "none", Null)
  /\ UNCHANGED <<wallets, accounts, slot, output, rendered, initTimer, timers,
                 listeners, cycles, autoBy>>

\* Lines 313-319 saving only when no record is stored yet.
saveDefaultAccountKeepsStored(s, w, writeOk) ==
  IF Len(accounts[w]) > 0 /\ ~loadWalletConnection(s).present
  THEN saveWalletConnection(s, wallets[w].name, accounts[w][1], 0, writeOk)
  ELSE s

\* Lines 313-319: after connect() resolved, the first account of wallet w,
\* when there is one, is saved with index 0.
saveDefaultAccount(s, w, writeOk) ==
  IF Len(accounts[w]) > 0
  THEN saveWalletConnection(s, wallets[w].name, accounts[w][1], 0, writeOk)
  ELSE s

\* The connect handler with the displaySuiWallets() call of line 323 moved
\* behind the try/catch: the refresh runs after a rejected connect too.
ConnectSettlesRefreshesOnReject(w, ok, writeOk) ==
  /\ pending[w] = "connect"
  /\ pending' = [pending EXCEPT ![w] = "none"]
  /\ LET saves == Len(accounts[w]) > 0
         rec == StoredWalletConnection(JsStr(wallets[w].name),
                                       JsStr(accounts[w][1]), JsNum(0))
     IN  IF ok
         THEN /\ saves \/ writeOk
              /\ displaySuiWallets("user", saveDefaultAccount(slot, w, writeOk))
              /\ last' = IF saves
                         THEN Step("connectSettled", w, TRUE,
                                   IF writeOk THEN "saved" ELSE "failed", rec)
                         ELSE Step("connectSettled", w, TRUE, "none", Null)
         ELSE /\ writeOk
              /\ displaySuiWallets("user", slot)
              /\ last' = Step("connectSettled", w, FALSE, "none", Null)
  /\ UNCHANGED <<wallets, accounts, initTimer, timers>>

\* The connect() on wallet w settles (lines 310-327).  Resolved: the first
\* account, when there is one, is saved with index 0 (the write may throw,
\* which saveWalletConnection swallows), and the UI is refreshed.
\* Rejected: the catch block logs.
ConnectSettles(w, ok, writeOk) ==
  /\ pending[w] = "connect"
  /\ pending' = [pending EXCEPT ![w] = "none"]
  /\ LET saves == Len(accounts[w]) > 0
         rec == StoredWalletConnection(JsStr(wallets[w].name),
                                       JsStr(accounts[w][1]), JsNum(0))
     IN  IF ok
         THEN /\ saves \/ writeOk
              /\ displaySuiWallets("user", saveDefaultAccount(slot, w, writeOk))
              /\ last' = IF saves
                         THEN Step("connectSettled", w, TRUE,
                                   IF writeOk THEN "saved" ELSE "failed", rec)
                         ELSE Step("connectSettled", w, TRUE, "none", Null)
         ELSE /\ writeOk
              /\ resolver' = Forget(resolver)
              /\ last' = Step("connectSettled", w, FALSE, "none", Null)
              /\ UNCHANGED <<slot, output, rendered, listeners, cycles, autoBy>>
  /\ UNCHANGED <<wallets, accounts, initTimer, timers>>

\* The user clicks the Disconnect button of wallet w (line 331).
ClickDisconnect(w) ==
  /\ output = "List"
  /\ disconnectBtn(rendered[w])
  /\ pending[w] = "none"
  /\ Committed < MaxCycles
  /\ pending' = [pending EXCEPT ![w] = "disconnect"]
  /\ resolver' = Forget(resolver)
  /\ last' = Step("click", w, TRUE, "none", Null)
  /\ UNCHANGED <<wallets, accounts, slot, output, rendered, initTimer, timers,
                 listeners, cycles, autoBy>>

\* Line 343 clearing only a record that names the disconnected wallet.
clearAfterDisconnectOwnRecordOnly(s, w) ==
  IF loadWalletConnection(s).walletName = JsStr(wallets[w].name)
  THEN clearWalletConnection(s)
  ELSE s

\* Line 343: after disconnect() on wallet w resolved the store is cleared,
\* whichever wallet the stored record names.
clearAfterDisconnect(s, w) == clearWalletConnection(s)

\* The disconnect() on wallet w settles (lines 339-351).
DisconnectSettles(w, ok) ==
  /\ pending[w] = "disconnect"
  /\ pending' = [pending EXCEPT ![w] = "none"]
  /\ IF ok
     THEN /\ displaySuiWallets("user", clearAfterDisconnect(slot, w))
          /\ last' = Step("disconnectSettled", w, TRUE, "clear", Null)
     ELSE /\ resolver' = Forget(resolver)
          /\ last' = Step("disconnectSettled", w, FALSE, "none", Null)
          /\ UNCHANGED <<slot, output, rendered, listeners, cycles, autoBy>>
  /\ UNCHANGED <<wallets, accounts, initTimer, timers>>

\* Lines 418-424 with an else branch that clears the store when the chosen
\* index names no live account.
saveSelectedAccountElseClears(s, w, selectedIndex, writeOk) ==
  IF selectedIndex < Len(accounts[w])
  THEN saveWalletConnection(s, wallets[w].name, accounts[w][selectedIndex + 1],
                            selectedIndex, writeOk)
  ELSE clearWalletConnection(s)

\* Lines 418-424: the live account of the chosen index, if any, is saved.
saveSelectedAccount(s, w, selectedIndex, writeOk) ==
  IF selectedIndex < Len(accounts[w])
  THEN saveWalletConnection(s, wallets[w].name, accounts[w][selectedIndex + 1],
                            selectedIndex, writeOk)
  ELSE s

\* The user picks option i of wallet w's account selector (lines 417-425):
\* the 'change' handler saves the live account of that index, if any.
SelectAccount(w, i, writeOk) ==
  /\ output = "List"
  /\ accountsShown(rendered[w])
  /\ i \in 0..(rendered[w].options - 1)
  /\ i # rendered[w].selected
  /\ rendered' = [rendered EXCEPT ![w].selected = i]
  /\ LET saves == i < Len(accounts[w])
         rec == StoredWalletConnection(JsStr(wallets[w].name),
                                       JsStr(accounts[w][i + 1]), JsNum(i))
     IN  /\ saves \/ writeOk
         /\ slot' = saveSelectedAccount(slot, w, i, writeOk)
         /\ last' = IF saves
                    THEN Step("select", w, TRUE, IF writeOk THEN "saved" ELSE "failed", rec)
                    ELSE Step("select", w, TRUE, "none", Null)
  /\ resolver' = Forget(resolver)
  /\ UNCHANGED <<wallets, accounts, output, initTimer, timers, listeners,
                 pending, cycles, autoBy>>

\* ------------------------------------------------------------ the wallets
\* The 'change' listener of lines 211-217 without its setTimeout call.
WalletChangesWithoutTimer(w, accs) ==
  /\ accs # accounts[w]
  /\ accounts' = [accounts EXCEPT ![w] = accs]
  /\ resolver' = Forget(resolver)
  /\ last' = Step("walletChanges", 0, TRUE, "none", Null)
  /\ UNCHANGED <<wallets, slot, output, rendered, initTimer, timers, listeners,
                 pending, cycles, autoBy>>

\* Wallet w changes its account list and tells its 'change' listeners;
\* every listener of lines 211-217 sets a timer.  Timers beyond MaxTimers
\* are not told apart.
WalletChanges(w, accs) ==
  LET scheduled == Min({timers + listeners[w], MaxTimers})
  IN  /\ accs # accounts[w]
      /\ Committed + (scheduled - timers) <= MaxCycles
      /\ accounts' = [accounts EXCEPT ![w] = accs]
      /\ timers' = scheduled
      /\ resolver' = Forget(resolver)
      /\ last' = [Step("walletChanges", 0, TRUE, "none", Null)
                    EXCEPT !.timersSet = listeners[w]]
      /\ UNCHANGED <<wallets, slot, output, rendered, initTimer, listeners,
                     pending, cycles, autoBy>>

Next ==
  \/ LoadTimerFires
  \/ ChangeTimerFires
  \/ \E ok \in BOOLEAN : SilentConnectSettles(ok)
  \/ \E w \in W : ClickConnect(w)
  \/ \E w \in W, ok \in BOOLEAN, writeOk \in BOOLEAN : ConnectSettles(w, ok, writeOk)
  \/ \E w \in W : ClickDisconnect(w)
  \/ \E w \in W, ok \in BOOLEAN : DisconnectSettles(w, ok)
  \/ \E w \in W, i \in 0..(MaxAccounts - 1), writeOk \in BOOLEAN :
       SelectAccount(w, i, writeOk)
  \/ \E w \in W, accs \in AccountLists : WalletChanges(w, accs)

Spec == Init /\ [][Next]_vars

\* The steps in which the browser runs a timer callback, told by the timer
\* they take away: the one of line 443 (LoadTimerFires is the only step
\* that resets initTimer) and one of line 216 (ChangeTimerFires is the
\* only step that lowers timers).
LoadTimerRuns == initTimer /\ initTimer' = FALSE
ChangeTimerRuns == timers > 0 /\ timers' = timers - 1

\* The browser runs the callback of every timer that was set.  Nothing
\* makes a wallet settle a promise or a user click.
LiveSpec ==
  Init /\ [][Next]_vars /\ WF_initTimer(LoadTimerRuns) /\ WF_timers(ChangeTimerRuns)

\* ================================================================ claims
RecordOf(nm, ad, ix) == StoredWalletConnection(JsStr(nm), JsStr(ad), JsNum(ix))

\* The values the members of key k of an object text carry.
FieldValues(s, k) ==
  { s.members[j].val : j \in { i \in DOMAIN s.members : s.members[i].key = k } }

\* The text is an object with a string walletName, a string accountAddress
\* and a number accountIndex >= 0.
StructurallyValid(s) ==
  /\ s.kind = "object"
  /\ FieldValues(s, "walletName") # {}
  /\ \A v \in FieldValues(s, "walletName") : v.t = "string"
  /\ FieldValues(s, "accountAddress") # {}
  /\ \A v \in FieldValues(s, "accountAddress") : v.t = "string"
  /\ FieldValues(s, "accountIndex") # {}
  /\ \A v \in FieldValues(s, "accountIndex") : v.t = "number" /\ v.n >= 0

\* C1: load() returns absent whenever the slot is empty, holds unparsable
\* text, or holds a parsable value that is structurally invalid (a field
\* missing or of the wrong type); no record is returned in these cases.
C1_LoadAbsentOnInvalid ==
  ~StructurallyValid(slot) => loadWalletConnection(slot) = Null

\* C2 as claimed: after every save of a valid record R, load() returns R.
C2_RoundTripAlways ==
  last.store \in {"saved", "failed"} => loadWalletConnection(slot) = last.rec

\* C2, amended: for every valid record R, save(R) whose write does not
\* throw, followed by load(), returns a record equal to R in all three
\* fields, whatever the slot held before: this holds of every save the
\* page makes, and of every valid record saved over every content the
\* slot can have at page load.
C2_RoundTrip ==
  /\ last.store = "saved" => loadWalletConnection(slot) = last.rec
  /\ last.op = "init" =>
     \A nm \in WalletNames, ad \in Addresses, ix \in 0..MaxIndex :
       LET loaded == loadWalletConnection(saveWalletConnection(slot, nm, ad, ix, TRUE))
       IN  /\ loaded.present
           /\ loaded.walletName = JsStr(nm)
           /\ loaded.accountAddress = JsStr(ad)
           /\ loaded.accountIndex = JsNum(ix)

\* C2 witness: the page saved account index 1 over a stored record and the
\* write went through.
C2_Witness ==
  /\ last.store = "saved" /\ last.op = "select"
  /\ last.rec.accountIndex = JsNum(1)
  /\ loadWalletConnection(last.prev).present

\* C3: clear() is idempotent: from every store state a second clear leaves
\* the store as the first one did, clearing an empty slot is no error and
\* changes nothing, and load() after one or two clears returns absent.
C3_ClearIdempotent ==
  LET once == clearWalletConnection(slot)
      twice == clearWalletConnection(once)
  IN  /\ twice = once
      /\ loadWalletConnection(once) = Null
      /\ loadWalletConnection(twice) = Null
      /\ last.store = "clear" => /\ loadWalletConnection(slot) = Null
                                 /\ last.prev = NoItem => slot = last.prev

\* C3 witness: a clear of a slot that was empty already (the disconnect
\* handler clears a store the auto-reconnect had cleared before).
C3_Witness ==
  /\ last.store = "clear" /\ last.op = "disconnectSettled"
  /\ last.prev = NoItem /\ slot = NoItem

\* C4 as claimed: after any sequence of saves and clears load() returns
\* the record of the last save if the last operation was a save, and
\* absent if it was a clear.
C4_LastSaveWinsAlways ==
  /\ last.store \in {"saved", "failed"} => loadWalletConnection(slot) = last.rec
  /\ last.store = "clear" => loadWalletConnection(slot) = Null

\* C4, amended: the store holds at most one record and a write replaces:
\* after a save whose write did not throw, the slot holds exactly the
\* saved record (no member of an earlier record is left) and load()
\* returns it; after a clear load() returns absent; a save whose write
\* threw, and every step without a store call, leave the slot as it was.
C4_LastSaveWins ==
  /\ last.store = "saved" =>
       /\ loadWalletConnection(slot) = last.rec
       /\ Len(slot.members) = 3
       /\ \A k \in DOMAIN slot.members :
            slot.members[k].val \in
              {last.rec.walletName, last.rec.accountAddress, last.rec.accountIndex}
  /\ last.store = "clear" => loadWalletConnection(slot) = Null
  /\ last.store \in {"failed", "none"} => slot = last.prev

\* C4 witness: a save over a record of another wallet and another address.
C4_Witness ==
  /\ last.store = "saved"
  /\ loadWalletConnection(last.prev).present
  /\ loadWalletConnection(last.prev).walletName.t = "string"
  /\ loadWalletConnection(last.prev).walletName # last.rec.walletName
  /\ loadWalletConnection(last.prev).accountAddress # last.rec.accountAddress

\* C5: autoConnectWallet is invoked at most once per page load, and only
\* by the cycle the page-load timer starts: never by a cycle a wallet
\* change event scheduled or a connect or disconnect handler started.
C5_AutoConnectOnlyInitially ==
  /\ Len(autoBy) <= 1
  /\ \A k \in DOMAIN autoBy : autoBy[k] = "load"
  /\ last.op \in {"cycle:event", "connectSettled", "disconnectSettled"} =>
       resolver.state = "idle"

\* C5 witness: an event-triggered cycle ran after the initial one, which
\* had invoked the auto-connect.
C5_Witness ==
  /\ last.op = "cycle:event" /\ cycles >= 2 /\ autoBy = <<"load">>

\* The auto-connect returned in the step just taken, having started from a
\* stored record that names no available wallet.
NameMismatch ==
  /\ resolver.state = "done"
  /\ loadWalletConnection(resolver.slot0).present
  /\ \A w \in W : JsStr(wallets[w].name) # loadWalletConnection(resolver.slot0).walletName

\* C6: when a stored record exists and no available wallet handle has the
\* stored wallet name (the wallet list may be empty), the resolver invokes
\* no connect capability on any wallet, clears the store and returns false.
C6_WalletNameMismatch ==
  NameMismatch =>
    /\ resolver.connects = <<>>
    /\ \A w \in W : pending[w] = "none"
    /\ ~resolver.result
    /\ slot = NoItem
    /\ loadWalletConnection(slot) = Null

\* C6 witness: a record naming "Sui Wallet" and a wallet list holding only
\* "Ethos Wallet".
C6_Witness ==
  /\ NameMismatch
  /\ Len(wallets) = 1
  /\ loadWalletConnection(resolver.slot0).walletName = JsStr("Sui Wallet")

\* C7: when the stored wallet is found and its silent connect rejects or
\* throws, the resolver clears the store and returns false, and the
\* suspended refresh cycle goes on: the listeners are registered and every
\* row is rendered.
C7_SilentConnectRejected ==
  (last.op = "silentSettled" /\ ~last.ok) =>
    /\ resolver.state = "done" /\ ~resolver.result
    /\ slot = NoItem
    /\ loadWalletConnection(slot) = Null
    /\ output = "List"
    /\ \A w \in W : /\ listeners[w] = IF wallets[w].events THEN 1 ELSE 0
                    /\ rendered[w].connected = (Len(accounts[w]) > 0)
                    /\ rendered[w].options = Len(accounts[w])

\* C7 witness: the silent connect was rejected while a record was stored
\* and another wallet is connected.
C7_Witness ==
  /\ last.op = "silentSettled" /\ ~last.ok
  /\ loadWalletConnection(last.prev).present
  /\ \E w \in W : rendered[w].connected

\* The stored record is stale for the account list accs: the list is not
\* longer than the stored index, or the address at that index differs.
Stale(storedConnection, accs) ==
  /\ storedConnection.accountIndex.t = "number"
  /\ \/ Len(accs) <= storedConnection.accountIndex.n
     \/ JsStr(accs[storedConnection.accountIndex.n + 1]) # storedConnection.accountAddress

\* C8: after a silent connect that resolved, a stale stored record (live
\* list not longer than accountIndex, or another address at accountIndex)
\* makes the resolver clear the store and return false; the resolver never
\* reads the account list at an index outside it.
C8_StaleDetection ==
  /\ resolver.state = "done" => resolver.read # "undefined"
  /\ (last.op = "silentSettled" /\ last.ok
      /\ Stale(resolver.stored, accounts[resolver.w])) =>
        /\ ~resolver.result
        /\ slot = NoItem
        /\ loadWalletConnection(slot) = Null
        /\ Len(accounts[resolver.w]) <= resolver.stored.accountIndex.n
             => resolver.read = "none"

\* C8 witness: accountIndex 2 stored, the live account list has length 1.
C8_Witness ==
  /\ last.op = "silentSettled" /\ last.ok
  /\ resolver.stored.accountIndex = JsNum(2)
  /\ Len(accounts[resolver.w]) = 1
  /\ ~resolver.result

\* The live account at the stored index has the stored address.
AccountMatches(storedConnection, accs) ==
  /\ storedConnection.accountIndex.t = "number"
  /\ storedConnection.accountIndex.n < Len(accs)
  /\ JsStr(accs[storedConnection.accountIndex.n + 1]) = storedConnection.accountAddress

\* C9: when the stored wallet is found, the silent connect resolves and
\* the live account at the stored index has the stored address, the
\* resolver returns true and the store is as it was: nothing is written
\* or cleared, and load() returns the record the resolver started from.
C9_AccountMatch ==
  (last.op = "silentSettled" /\ last.ok
   /\ AccountMatches(resolver.stored, accounts[resolver.w])) =>
    /\ resolver.result
    /\ last.store = "none"
    /\ slot = last.prev
    /\ slot = resolver.slot0
    /\ loadWalletConnection(slot) = resolver.stored

\* C9 witness: the record {"Sui Wallet", "0xabc", 0}, and a wallet of that
\* name whose account 0 has that address.
C9_Witness ==
  /\ last.op = "silentSettled" /\ last.ok /\ resolver.result
  /\ resolver.stored = RecordOf("Sui Wallet", "0xabc", 0)
  /\ accounts[resolver.w][1] = "0xabc"

\* A user-initiated connect on a wallet resolved in the step just taken
\* and the wallet exposes accounts.
FreshConnect ==
  /\ last.op = "connectSettled" /\ last.ok
  /\ Len(accounts[last.w]) > 0

\* C10 as claimed: after a user-initiated connect on wallet W resolved and
\* W exposes accounts, the store holds exactly {W.name, W.accounts[0].address, 0}.
C10_FreshConnectAlways ==
  FreshConnect =>
    loadWalletConnection(slot) = RecordOf(wallets[last.w].name, accounts[last.w][1], 0)

\* C10, amended: after a user-initiated connect on wallet W resolved and W
\* exposes accounts, the store holds exactly {W.name,
\* W.accounts[0].address, 0}, whatever was stored before, unless the write
\* to the slot threw; then the store holds what it held before.
C10_FreshConnect ==
  FreshConnect =>
    IF last.store = "failed"
    THEN slot = last.prev
    ELSE /\ slot = JSONstringify(RecordOf(wallets[last.w].name, accounts[last.w][1], 0))
         /\ loadWalletConnection(slot) =
              RecordOf(wallets[last.w].name, accounts[last.w][1], 0)

\* C10 witness: the connect on a wallet with two accounts, while a record
\* of another wallet with another index 0 address was stored.
C10_Witness ==
  /\ FreshConnect /\ last.store = "saved"
  /\ Len(accounts[last.w]) = 2
  /\ loadWalletConnection(last.prev).present
  /\ loadWalletConnection(last.prev).walletName.t = "string"
  /\ loadWalletConnection(last.prev).walletName # JsStr(wallets[last.w].name)
  /\ loadWalletConnection(last.prev).accountAddress # JsStr(accounts[last.w][1])

\* The user chose an option of wallet last.w's selector in the step just
\* taken; the selector shows the chosen index.
Selection == last.op = "select"
selectedIndex == rendered[last.w].selected
SelectionResolves == selectedIndex < Len(accounts[last.w])

\* C11 as claimed: when the user selects index i of wallet W's selector
\* and W's live account list has an account i, the store becomes exactly
\* {W.name, W.accounts[i].address, i}; when it has none, the store is left
\* unchanged.
C11_SelectionOverwriteAlways ==
  Selection =>
    IF SelectionResolves
    THEN slot = JSONstringify(RecordOf(wallets[last.w].name,
                                       accounts[last.w][selectedIndex + 1],
                                       selectedIndex))
    ELSE slot = last.prev

\* C11, amended: when the user selects index i of wallet W's selector and
\* W's live account list has an account i, the store becomes exactly
\* {W.name, W.accounts[i].address, i}, replacing what it held, unless the
\* write to the slot threw, which leaves the store as it was; when the
\* list has no account i, no store call is made and the store is unchanged.
C11_SelectionOverwrite ==
  Selection =>
    IF SelectionResolves
    THEN /\ last.store \in {"saved", "failed"}
         /\ last.store = "failed" => slot = last.prev
         /\ last.store = "saved" =>
              /\ slot = JSONstringify(RecordOf(wallets[last.w].name,
                                               accounts[last.w][selectedIndex + 1],
                                               selectedIndex))
              /\ loadWalletConnection(slot) =
                   RecordOf(wallets[last.w].name,
                            accounts[last.w][selectedIndex + 1], selectedIndex)
    ELSE /\ last.store = "none"
         /\ slot = last.prev

\* C11 witness: index 1 chosen on a wallet with two accounts while the
\* store held a record of another index, and the write went through.
C11_Witness ==
  /\ Selection /\ SelectionResolves /\ last.store = "saved"
  /\ selectedIndex = 1
  /\ loadWalletConnection(last.prev).present
  /\ loadWalletConnection(last.prev).accountIndex # JsNum(1)

\* C12: after a user-initiated disconnect of a connected wallet whose
\* disconnect call resolved, the store is empty and load() returns absent,
\* whatever the store held and whichever wallet the stored record named.
C12_DisconnectClears ==
  (last.op = "disconnectSettled" /\ last.ok) =>
    /\ last.store = "clear"
    /\ slot = NoItem
    /\ loadWalletConnection(slot) = Null

\* C12 witness: the disconnected wallet is not the one the stored record
\* named.
C12_Witness ==
  /\ last.op = "disconnectSettled" /\ last.ok
  /\ loadWalletConnection(last.prev).present
  /\ loadWalletConnection(last.prev).walletName.t = "string"
  /\ loadWalletConnection(last.prev).walletName # JsStr(wallets[last.w].name)

\* A user-initiated connect or disconnect call was rejected in the step
\* just taken.
FailedUserAction ==
  /\ last.op \in {"connectSettled", "disconnectSettled"}
  /\ ~last.ok

\* C13: when a user-initiated connect call or a user-initiated disconnect
\* call rejects, the handler makes no store call, the store holds after
\* the handler what it held before, and the handler starts no refresh
\* cycle; the handler has finished (no call of that wallet is in flight).
C13_FailedActionKeepsStore ==
  FailedUserAction =>
    /\ last.store = "none"
    /\ slot = last.prev
    /\ cycles = last.prevCycles
    /\ pending[last.w] = "none"

\* C13 witness: a disconnect was rejected while the store held a record of
\* that wallet.
C13_Witness ==
  /\ FailedUserAction /\ last.op = "disconnectSettled"
  /\ loadWalletConnection(slot).present
  /\ loadWalletConnection(slot).walletName = JsStr(wallets[last.w].name)

\* The step just taken ran a refresh cycle to its end: it subscribed and
\* rendered every row from the slot and the account lists of this state.
Rendered ==
  \/ cycles = last.prevCycles + 1 /\ resolver.state # "awaiting"
  \/ last.op = "silentSettled"

\* The account lists the render displayed: those of the connected wallets.
Displayed == { w \in W : Len(accounts[w]) > 0 }

\* C14: when the account list of wallet W is rendered, index i is marked
\* preferred if and only if (a) load() gives a record whose walletName is
\* W.name and whose accountIndex is i, or (b) i = 0 and load() gives no
\* record; the selector then shows a marked option when there is one.
C14_SelectionDefault ==
  Rendered =>
    \A w \in Displayed :
      LET stored == loadWalletConnection(slot)
          byRecord(i) == /\ stored.present
                         /\ stored.walletName = JsStr(wallets[w].name)
                         /\ stored.accountIndex = JsNum(i)
          byDefault(i) == i = 0 /\ ~stored.present
      IN  /\ \A i \in 0..(Len(accounts[w]) - 1) :
               (i \in markedOptions(w, slot)) <=> (byRecord(i) \/ byDefault(i))
          /\ rendered[w].options = Len(accounts[w])
          /\ markedOptions(w, slot) # {} => rendered[w].selected \in markedOptions(w, slot)

\* C14 witness: two wallets with two accounts each are rendered while the
\* record names the second one with index 1: its option 1 is marked, and
\* no option of the first wallet is.
C14_Witness ==
  /\ Rendered /\ Len(wallets) = 2
  /\ \A w \in W : Len(accounts[w]) = 2
  /\ loadWalletConnection(slot).walletName = JsStr(wallets[2].name)
  /\ wallets[2].name # wallets[1].name
  /\ loadWalletConnection(slot).accountIndex = JsNum(1)
  /\ rendered[2].selected = 1

\* C15: every rendered account list of a connected wallet has exactly one
\* account marked as preferred, also when the stored record names another
\* wallet and when the stored index is outside the wallet's account list.
C15_ExactlyOneMarked ==
  Rendered => \A w \in Displayed : Cardinality(markedOptions(w, slot)) = 1

\* C16: in every render, an index is marked preferred on the basis of the
\* stored record only if the live account at that index has the stored
\* accountAddress.
C16_MarkRevalidatesAddress ==
  Rendered =>
    \A w \in Displayed :
      LET stored == loadWalletConnection(slot)
      IN  \A i \in markedOptions(w, slot) :
            stored.present => JsStr(accounts[w][i + 1]) = stored.accountAddress

\* C17: after any number of refresh cycles, every wallet that has the
\* change-event capability has at most one change listener of this
\* program registered.
C17_AtMostOneListener ==
  \A w \in W : listeners[w] <= 1

\* The refresh cycles that ran to their end: all that were started, less
\* the initial one while it is suspended on the auto-reconnect.
Completed == IF resolver.state = "awaiting" THEN cycles - 1 ELSE cycles

\* C18: a refresh cycle is sequential.  While the initial cycle waits for
\* the auto-reconnect, no listener is registered and nothing is rendered
\* (#output holds the loading text); the listeners a wallet has are those
\* of the cycles that ran to their end, registered on discovered handles
\* with the events feature only; and a cycle that ran to its end rendered
\* a row for every discovered handle from the account lists of that step.
C18_CycleSequential ==
  /\ resolver.state = "awaiting" =>
       /\ cycles = 1 /\ Completed = 0
       /\ output = "Loading wallets..."
       /\ \A w \in W : listeners[w] = 0 /\ rendered[w] = NoRow
  /\ DOMAIN listeners = W /\ DOMAIN rendered = W
  /\ \A w \in W : listeners[w] = IF wallets[w].events THEN Completed ELSE 0
  /\ (output = "Loading wallets...") <=> (Completed = 0)
  /\ Rendered =>
       /\ output = IF W = {} THEN "NoWallets" ELSE "List"
       /\ \A w \in W : rendered[w] = renderRow(w, slot)

\* C18 witness: the initial cycle is suspended on the silent connect of a
\* connected wallet that has the events feature.
C18_Witness ==
  /\ resolver.state = "awaiting"
  /\ wallets[resolver.w].events
  /\ Len(accounts[resolver.w]) > 0

\* A wallet with a listener of this program changes its accounts: the
\* listener sets a timer.
NotificationSetsTimer ==
  [][\A w \in W : (accounts'[w] # accounts[w] /\ listeners[w] > 0) => timers' > 0]_vars

\* The step just taken was a refresh cycle started by a change timer, run
\* to its end: it subscribed again and rendered every row from the account
\* lists of this state.
EventRefresh ==
  /\ last.op = "cycle:event"
  /\ cycles = last.prevCycles + 1
  /\ resolver.state = "idle"
  /\ output = "List"
  /\ \A w \in W : /\ wallets[w].events => listeners[w] = cycles
                  /\ rendered[w] = renderRow(w, slot)

\* C19: every change notification delivered by a wallet that has a
\* listener of this program sets a timer, and while timers are pending the
\* program eventually gets to the end of a full refresh cycle with no
\* timer left: the cycle has subscribed again and rendered the connection
\* state and the accounts of every wallet from its then-current list.
C19_NotificationRefreshes ==
  /\ NotificationSetsTimer
  /\ (timers > 0) ~> (timers = 0 /\ EventRefresh)

\* C19 witness: a refresh cycle started by a change timer has rendered two
\* accounts of a wallet that has the events feature.
C19_Witness ==
  /\ EventRefresh
  /\ \E w \in W : wallets[w].events /\ rendered[w].options = 2

\* C20: when the write to the slot throws, saveWalletConnection returns
\* normally: the slot keeps what it held, and the calling handler goes on
\* to its end.  The connect handler still starts the refresh cycle, which
\* renders every row; the selection handler has nothing left to do and
\* the selector shows the chosen option.
C20_SaveNeverFails ==
  last.store = "failed" =>
    /\ slot = last.prev
    /\ last.op \in {"connectSettled", "select"}
    /\ last.op = "connectSettled" =>
         /\ last.ok
         /\ cycles = last.prevCycles + 1
         /\ pending[last.w] = "none"
         /\ output = "List"
         /\ \A w \in W : rendered[w] = renderRow(w, slot)
         /\ rendered[last.w].connected
    /\ last.op = "select" => cycles = last.prevCycles

\* C20 witness: the write of a user connect threw while a record of
\* another wallet was stored; the record is still there and the cycle ran.
C20_Witness ==
  /\ last.store = "failed" /\ last.op = "connectSettled"
  /\ loadWalletConnection(slot).present
  /\ loadWalletConnection(slot).walletName.t = "string"
  /\ loadWalletConnection(slot).walletName # JsStr(wallets[last.w].name)
  /\ cycles = last.prevCycles + 1

\* C21: in every render each wallet is shown as connected if and only if
\* its account list is non-empty at that moment, its row has exactly one
\* action control, Disconnect if connected and Connect if not, and the
\* accounts and the selector are shown for connected wallets only, with
\* one option per live account.
C21_RowMatchesConnection ==
  Rendered =>
    \A w \in W :
      LET row == rendered[w]
          isConnected == Len(accounts[w]) > 0
      IN  /\ row.connected <=> isConnected
          /\ disconnectBtn(row) <=> isConnected
          /\ connectBtn(row) <=> ~isConnected
          /\ connectBtn(row) # disconnectBtn(row)
          /\ accountsShown(row) <=> isConnected
          /\ row.options = IF isConnected THEN Len(accounts[w]) ELSE 0

\* C21 witness: a render of two wallets, one connected with two accounts
\* and one disconnected.
C21_Witness ==
  /\ Rendered /\ Len(wallets) = 2
  /\ Len(accounts[1]) = 0 /\ connectBtn(rendered[1])
  /\ Len(accounts[2]) = 2 /\ disconnectBtn(rendered[2])

\* A call on a wallet other than the one the step just taken was about is
\* in flight.
OtherWalletHung == \E v \in W : v # last.w /\ pending[v] # "none"

\* While a user call on another wallet is in flight, a connect, a
\* disconnect and an account selection take effect on the store.
OthersStillAct ==
  OtherWalletHung =>
    /\ (last.op = "connectSettled" /\ last.store = "saved") =>
         loadWalletConnection(slot) = last.rec
    /\ (last.op = "disconnectSettled" /\ last.ok) => slot = NoItem
    /\ (last.op = "select" /\ last.store = "saved") =>
         loadWalletConnection(slot) = last.rec

\* Where there is more than one wallet the rows have been rendered: the
\* page got past the loading text and shows the list.
OtherRowsRendered == Len(wallets) > 1 => output = "List"

\* C22: a wallet capability call (silent connect, connect or disconnect)
\* that never settles stalls that wallet's row only: the rows of the
\* other wallets are still eventually rendered, and their connect,
\* disconnect and account-selection actions still take effect on the
\* store.
C22_HungCallStallsOneRow ==
  /\ <>OtherRowsRendered
  /\ []OthersStillAct

\* The handles that carry the name of the record the resolver loaded.
Named == { w \in W : JsStr(wallets[w].name) = resolver.stored.walletName }

\* A step of autoConnectWallet: its start in the initial cycle, or its
\* continuation when the silent connect settles.
ResolverStep ==
  \/ initTimer /\ ~initTimer'
  \/ resolver.state = "awaiting" /\ resolver'.state = "done"

\* C23: in one invocation of the auto-reconnect resolver the connect
\* capability is invoked at most once, with {silent: true}, and only on
\* the first handle in list order whose name equals the stored wallet
\* name (later handles of that name are never connected); it is invoked
\* exactly when such a handle exists; and no step of the resolver starts
\* a disconnect or any other call on a wallet.
C23_SilentConnectFirstMatch ==
  /\ [](resolver.state # "idle" =>
          /\ Len(resolver.connects) <= 1
          /\ Len(resolver.connects) = 1 <=> (resolver.stored.present /\ Named # {})
          /\ \A k \in DOMAIN resolver.connects :
               /\ resolver.connects[k].silent
               /\ resolver.connects[k].w \in Named
               /\ \A v \in Named : resolver.connects[k].w <= v)
  /\ [][ResolverStep => pending' = pending]_vars

\* C23 witness: two handles named "Sui Wallet" and a record of that name:
\* the resolver called the silent connect of the first one only.
C23_Witness ==
  /\ resolver.state = "done" /\ last.op = "silentSettled"
  /\ Cardinality(Named) = 2
  /\ resolver.connects = <<connectCall(1, TRUE)>>

\* C24: whenever the auto-reconnect resolver terminates with false,
\* load() returns absent right afterwards: either load() gave no record at
\* its start, and then it invoked no connect and left the slot as it was,
\* or it cleared the store on the failure path; whenever it terminates
\* with true, the slot is as it was and load() returns the record the
\* resolver started from.
C24_ResolverOutcome ==
  resolver.state = "done" =>
    IF resolver.result
    THEN /\ slot = resolver.slot0
         /\ loadWalletConnection(slot) = resolver.stored
         /\ resolver.stored.present
    ELSE /\ loadWalletConnection(slot) = Null
         /\ IF loadWalletConnection(resolver.slot0).present
            THEN slot = NoItem
            ELSE /\ slot = resolver.slot0
                 /\ resolver.connects = <<>>
                 /\ last.store = "none"

\* C24 witness: the resolver terminated with false because the live account
\* at the stored index has another address, and the record is gone.
C24_Witness ==
  /\ resolver.state = "done" /\ ~resolver.result
  /\ resolver.path = "mismatch" /\ resolver.read = "account"
  /\ loadWalletConnection(resolver.slot0).present
  /\ slot = NoItem

\* C25: a single change notification from a wallet schedules exactly one
\* refresh cycle, however many refresh cycles have run before: a step in
\* which a wallet tells its listeners sets at most one timer.
C25_OneRefreshPerNotification ==
  last.op = "walletChanges" => last.timersSet <= 1

\* While the auto-reconnect is suspended on its silent connect: the page
\* shows the loading text and no row, no listener of this program is
\* registered, no handler of the user is in flight, no refresh is
\* scheduled, and the slot holds what the auto-reconnect loaded.
SuspendedAlone ==
  resolver.state = "awaiting" =>
    /\ output = "Loading wallets..."
    /\ \A w \in W : listeners[w] = 0 /\ pending[w] = "none"
    /\ timers = 0
    /\ ~initTimer
    /\ cycles = 1
    /\ slot = resolver.slot0
    /\ loadWalletConnection(slot) = resolver.stored

\* The step that ends the suspension validates against the record the
\* auto-reconnect loaded, the slot still holding it.
ValidatesLoadedRecord ==
  last.op = "silentSettled" =>
    /\ last.prev = resolver.slot0
    /\ loadWalletConnection(last.prev) = resolver.stored

\* C26: while the auto-reconnect is suspended on its silent connect no
\* connect, disconnect or selection handler of the user and no refresh from
\* a change event runs (no control is rendered, no listener registered, the
\* only steps are the settling of the silent connect and a wallet changing
\* its own accounts), so the store at the validation step holds the record
\* the auto-reconnect loaded at its start.
C26_SuspendedUndisturbed ==
  /\ [](SuspendedAlone /\ ValidatesLoadedRecord)
  /\ [][resolver.state = "awaiting" =>
          /\ last'.op \in {"silentSettled", "walletChanges"}
          /\ last'.op = "walletChanges" => slot' = slot /\ timers' = 0]_vars

\* The silent connect of a page with a wallet that emits change events
\* settled, and the auto-reconnect validated the record it had loaded.
C26_Witness ==
  /\ last.op = "silentSettled"
  /\ resolver.path \in {"match", "mismatch"}
  /\ resolver.stored.present
  /\ last.prev = resolver.slot0
  /\ \E w \in W : wallets[w].events

====
